---- MODULE Spec2Model ----
(***************************************************************************)
(* Model of the historify changelog chain: the repository's seed, the     *)
(* changelog files under changes/, their detached .minisig signatures and *)
(* the integrity table, driven by init, the start/closing lifecycle,      *)
(* comment, scan and full-chain verification, each as one step, and the   *)
(* lifecycle and comment calls of two processes as interleaved steps.     *)
(*                                                                         *)
(* A digest is modelled by the hashed content itself (an injective hash); *)
(* a signature by the content that was signed.                            *)
(***************************************************************************)
EXTENDS Integers, Sequences, FiniteSets, TLC

\* ---------------------------------------------------------------- bounds
MaxChangelogs == 3   \* changelog files ever created
MaxRows == 1         \* rows that comment and scan append in a run
Seeds == {1}         \* possible contents of db/seed.bin (random bytes)
Messages == {1}      \* comment texts

VARIABLES
    today,      \* current UTC day of month
    seed_bin,   \* content of db/seed.bin, 0 when the repository is not initialised
    seed_sig,   \* content signed by db/seed.bin.minisig, 0 when absent
    changes,    \* changelog name -> sequence of data rows, for each file in changes/
    minisig,    \* changelog name -> rows signed, for each .csv.minisig file
    integrity,  \* changelog name -> integrity table row
    created,    \* changelog names in the order create_new_changelog made them
    last,       \* the last operation called, its environment and its result
    procs,      \* process -> where its running call stands and what it holds
    data_files, \* path -> content, for each file under the data directories
    db_files,   \* rows (hash, path) of the files table of historify.db, in rowid order
    transactions, \* the transactions the last FileMonitor.scan returned
    scanned,    \* the data directories as the last scan walked them
    archives,   \* output path -> the repository packed, for each archive snapshot has written
    media,      \* the archives handed to the media packer and the medium's capacity
    archive_groups, \* the groups split_archives_for_media returned
    key_files,  \* key id -> content, for each file <id>.pub under db/keys
    key_id,     \* the source and the result of the last backup_public_key call
    config_file, \* section.option -> value as written in db/config, the text form
    config_db,  \* key -> value, the rows of the config table of db/cache.db
    config,     \* the parser a RepositoryConfig instance holds in memory
    setting,    \* where the running RepositoryConfig.set call stands
    loaded      \* what a second RepositoryConfig instance read from db/config

\* the variables of the file monitor and of the snapshot packer
monitor == <<data_files, db_files, transactions, scanned>>

\* the variables of the media packer, of the key cache and of the configuration
tools == <<media, archive_groups, key_files, key_id,
           config_file, config_db, config, setting, loaded>>

vars == <<today, seed_bin, seed_sig, changes, minisig, integrity, created, last, procs,
          data_files, db_files, transactions, scanned, archives,
          media, archive_groups, key_files, key_id,
          config_file, config_db, config, setting, loaded>>

\* ------------------------------------------------------------ file names
NoFile == <<0, 0>>

Digit(k) == 48 + k

RECURSIVE Dec(_)
Dec(n) == IF n < 10 THEN <<Digit(n)>> ELSE Dec(n \div 10) \o <<Digit(n % 10)>>

\* strftime("%Y-%m-%d") of a day of April 2025: "2025-04-" and two digits
DateStr(d) == <<50, 48, 50, 53, 45, 48, 52, 45>> \o <<Digit(d \div 10), Digit(d % 10)>>

\* f"changelog-{today}.csv" and f"changelog-{today}-{counter}.csv" as code points
FileName(n) ==
    <<99, 104, 97, 110, 103, 101, 108, 111, 103, 45>> \o DateStr(n[1])
      \o (IF n[2] = 0 THEN <<>> ELSE <<45>> \o Dec(n[2]))
      \o <<46, 99, 115, 118>>

\* Python's string comparison: by code point, a proper prefix is smaller
RECURSIVE StrLessFrom(_, _, _)
StrLessFrom(a, b, i) ==
    IF i > Len(b) THEN FALSE
    ELSE IF i > Len(a) THEN TRUE
    ELSE IF a[i] = b[i] THEN StrLessFrom(a, b, i + 1)
    ELSE a[i] < b[i]

StrLess(a, b) == StrLessFrom(a, b, 1)

NameLess(m, n) == StrLess(FileName(m), FileName(n))

\* every name create_new_changelog can make, in the order of their file names
Names == (1..MaxChangelogs) \X (0..MaxChangelogs)

RECURSIVE SortNames(_)
SortNames(S) ==
    IF S = {} THEN <<>>
    ELSE LET m == CHOOSE x \in S : \A y \in S \ {x} : NameLess(x, y)
         IN  <<m>> \o SortNames(S \ {m})

NameList == SortNames(Names)

\* sorted(self.changes_dir.glob("changelog-*.csv"))
Sorted(S) == SelectSeq(NameList, LAMBDA n : n \in S)

\* the place of a name among all names in lexical order
Rank(n) == CHOOSE i \in 1..Len(NameList) : NameList[i] = n

LexLess(m, n) == Rank(m) < Rank(n)

\* ------------------------------------------------------------------ rows
NoPath == [dir |-> "", name |-> NoFile]
SeedPath == [dir |-> "db", name |-> NoFile]
ChangesPath(n) == [dir |-> "changes", name |-> n]

Empty == [kind |-> "", rows |-> <<>>, val |-> 0]
SeedDigest(s) == [kind |-> "blake3", rows |-> <<>>, val |-> s]
FileDigest(rs) == [kind |-> "blake3", rows |-> rs, val |-> 0]
Text(m) == [kind |-> "text", rows |-> <<>>, val |-> m]

\* a row of required_fields but the timestamp; closing and comment rows leave
\* category, size, ctime, mtime and sha256 empty
Row(t, p, b) ==
    [type |-> t, path |-> p, category |-> "", size |-> "", ctime |-> "", mtime |-> "",
     sha256 |-> "", blake3 |-> b]

\* ------------------------------------------------------------ Changelog
\* the files of the repository, and the artifacts the running call has signed
Disk(c, m, s, i) ==
    [changes |-> c, minisig |-> m, seed_sig |-> s, integrity |-> i, signed |-> <<>>]

RECURSIVE LastUnsigned(_, _, _)
LastUnsigned(s, i, sg) ==
    IF i = 0 THEN NoFile
    ELSE IF s[i] \notin DOMAIN sg THEN s[i]
    ELSE LastUnsigned(s, i - 1, sg)

\* get_current_changelog without the signature test: the last changelog by name
get_current_changelog_any(d) ==
    LET s == Sorted(DOMAIN d.changes) IN IF s = <<>> THEN NoFile ELSE s[Len(s)]

\* get_current_changelog that falls back to the last changelog by name when
\* every changelog is signed
get_current_changelog_or_latest(d) ==
    LET s == Sorted(DOMAIN d.changes)
        open == LastUnsigned(s, Len(s), d.minisig)
    IN  IF open # NoFile \/ s = <<>> THEN open ELSE s[Len(s)]

get_current_changelog(d) ==
    LET s == Sorted(DOMAIN d.changes) IN LastUnsigned(s, Len(s), d.minisig)

get_latest_changelog(d) ==
    LET s == Sorted(DOMAIN d.changes) IN IF s = <<>> THEN NoFile ELSE s[Len(s)]

RECURSIVE NewName(_, _, _)
NewName(d, day, counter) ==
    IF <<day, counter>> \in DOMAIN d.changes THEN NewName(d, day, counter + 1)
    ELSE <<day, counter>>

\* sign_file: outcome is what the key and the signer do: "ok", "missing" (key file
\* not found), "error" (MinisignError), "false" (minisign_sign returns False).
\* minisign_sign writes <file>.minisig only when it succeeds.
\* sign_file that does not test what minisign_sign returned
sign_file_unchecked(d, file, seed, outcome) ==
    IF outcome = "missing" THEN [st |-> "key_not_found", d |-> d]
    ELSE IF outcome = "error" THEN [st |-> "minisign_error", d |-> d]
    ELSE IF outcome = "false" THEN [st |-> "ok", d |-> d]
    ELSE [st |-> "ok",
          d |-> IF file = NoFile
                THEN [d EXCEPT !.seed_sig = seed, !.signed = Append(@, SeedPath)]
                ELSE [d EXCEPT !.minisig = (file :> d.changes[file]) @@ @,
                               !.signed = Append(@, ChangesPath(file))]]

\* sign_file whose seed signature lands beside the expected db/seed.bin.minisig
sign_file_seed_elsewhere(d, file, seed, outcome) ==
    IF outcome = "missing" THEN [st |-> "key_not_found", d |-> d]
    ELSE IF outcome = "error" THEN [st |-> "minisign_error", d |-> d]
    ELSE IF outcome = "false" THEN [st |-> "sign_failed", d |-> d]
    ELSE [st |-> "ok",
          d |-> IF file = NoFile
                THEN [d EXCEPT !.signed = Append(@, SeedPath)]
                ELSE [d EXCEPT !.minisig = (file :> d.changes[file]) @@ @,
                               !.signed = Append(@, ChangesPath(file))]]

sign_file(d, file, seed, outcome) ==
    IF outcome = "missing" THEN [st |-> "key_not_found", d |-> d]
    ELSE IF outcome = "error" THEN [st |-> "minisign_error", d |-> d]
    ELSE IF outcome = "false" THEN [st |-> "sign_failed", d |-> d]
    ELSE [st |-> "ok",
          d |-> IF file = NoFile
                THEN [d EXCEPT !.seed_sig = seed, !.signed = Append(@, SeedPath)]
                ELSE [d EXCEPT !.minisig = (file :> d.changes[file]) @@ @,
                               !.signed = Append(@, ChangesPath(file))]]

\* fault: where the call stops; the open() of the new file raises OSError
\* under "create_oserror", the process is killed before it under "killed_after_sign"
create_new_changelog(d, day, fault) ==
    IF get_current_changelog(d) # NoFile THEN [st |-> "open_exists", d |-> d, name |-> NoFile]
    ELSE IF fault = "create_oserror" THEN [st |-> "oserror", d |-> d, name |-> NoFile]
    ELSE IF fault = "killed_after_sign" THEN [st |-> "killed", d |-> d, name |-> NoFile]
    ELSE LET n == NewName(d, day, 0)
         IN  [st |-> "ok", d |-> [d EXCEPT !.changes = (n :> <<>>) @@ @], name |-> n]

\* the closing row: path and digest of prev_file when it exists
\* a closing row that carries the digest of the seed only
ClosingRow_seed_digest_only(d, seed, prev) ==
    IF prev.dir = "db" /\ seed # 0 THEN Row("closing", SeedPath, SeedDigest(seed))
    ELSE IF prev.dir = "changes" /\ prev.name \in DOMAIN d.changes
         THEN Row("closing", ChangesPath(prev.name), Empty)
    ELSE Row("closing", NoPath, Empty)

\* a closing row that names the seed by its bare file name
ClosingRow_bare_seed_path(d, seed, prev) ==
    IF prev.dir = "db" /\ seed # 0 THEN Row("closing", NoPath, SeedDigest(seed))
    ELSE IF prev.dir = "changes" /\ prev.name \in DOMAIN d.changes
         THEN Row("closing", ChangesPath(prev.name), FileDigest(d.changes[prev.name]))
    ELSE Row("closing", NoPath, Empty)

ClosingRow(d, seed, prev) ==
    IF prev.dir = "db" /\ seed # 0 THEN Row("closing", SeedPath, SeedDigest(seed))
    ELSE IF prev.dir = "changes" /\ prev.name \in DOMAIN d.changes
         THEN Row("closing", ChangesPath(prev.name), FileDigest(d.changes[prev.name]))
    ELSE Row("closing", NoPath, Empty)

\* The row goes to get_current_changelog().  _record_transaction_in_db then
\* calls _update_integrity_record on a second connection while the first one
\* holds its uncommitted INSERT: the database is locked, the error is logged
\* and the integrity table keeps its rows.
\* the nested _update_integrity_record reaching the table: the changelog the
\* row was written to, which is open, gets an integrity row
write_closing_transaction_indexing(d, seed, prev, fault) ==
    LET f == get_current_changelog(d) IN
    IF f = NoFile THEN [st |-> "no_open_changelog", d |-> d]
    ELSE IF fault = "write_oserror" THEN [st |-> "write_failed", d |-> d]
    ELSE [st |-> "ok",
          d |-> [d EXCEPT !.changes[f] = Append(@, ClosingRow(d, seed, prev)),
                          !.integrity = (f :> [blake3 |-> FileDigest(
                                                   Append(d.changes[f], ClosingRow(d, seed, prev))),
                                               verified |-> 1]) @@ @]]

write_closing_transaction(d, seed, prev, fault) ==
    LET f == get_current_changelog(d) IN
    IF f = NoFile THEN [st |-> "no_open_changelog", d |-> d]
    ELSE IF fault = "write_oserror" THEN [st |-> "write_failed", d |-> d]
    ELSE [st |-> "ok",
          d |-> [d EXCEPT !.changes[f] = Append(@, ClosingRow(d, seed, prev))]]

\* dbOk: whether the INSERT OR REPLACE reaches the table (the connection left
\* open by _record_transaction_in_db may still hold the database lock)
_update_integrity_record(d, f, dbOk) ==
    IF dbOk /\ f \in DOMAIN d.changes
    THEN [d EXCEPT !.integrity = (f :> [blake3 |-> FileDigest(d.changes[f]), verified |-> 1]) @@ @]
    ELSE d

\* latest_signed: the last name in sorted order that has a signature
RECURSIVE LastSigned(_, _, _)
LastSigned(s, i, sg) ==
    IF i = 0 THEN NoFile
    ELSE IF s[i] \in DOMAIN sg THEN s[i]
    ELSE LastSigned(s, i - 1, sg)

latest_signed(d) ==
    LET s == Sorted(DOMAIN d.changes) IN LastSigned(s, Len(s), d.minisig)

\* start_closing, as [st, d, made]: the result, the disk afterwards and the
\* changelog it created (NoFile when none)
Result(st, d, made) == [st |-> st, d |-> d, made |-> made]

\* create_new_changelog then write_closing_transaction(prev)
CreateAndClose(d, day, seed, prev, fault) ==
    LET c == create_new_changelog(d, day, fault) IN
    IF c.st # "ok" THEN Result(c.st, d, NoFile)
    ELSE LET w == write_closing_transaction(c.d, seed, prev, fault)
         IN  Result(w.st, w.d, c.name)

\* start_closing that signs the seed whenever no changelog is open
start_closing_signing_seed_again(d, day, seed, sign, fault, dbOk) ==
    LET current == get_current_changelog(d) IN
    IF sign = "unconfigured" THEN Result("not_configured", d, NoFile)
    ELSE IF current = NoFile THEN
        LET s == sign_file(d, NoFile, seed, sign)
            ls == latest_signed(d)
            prev == IF ls # NoFile THEN ChangesPath(ls) ELSE SeedPath
        IN  IF s.st # "ok" THEN Result(s.st, d, NoFile)
            ELSE CreateAndClose(s.d, day, seed, prev, fault)
    ELSE
        LET s == sign_file(d, current, seed, sign) IN
        IF s.st # "ok" THEN Result(s.st, d, NoFile)
        ELSE LET r == CreateAndClose(s.d, day, seed, ChangesPath(current), fault)
             IN  IF r.st = "ok"
                 THEN Result("ok", _update_integrity_record(r.d, current, dbOk), r.made)
                 ELSE r

\* start_closing that reports a failed integrity-record update as a failure
start_closing_index_fatal(d, day, seed, sign, fault, dbOk) ==
    LET current == get_current_changelog(d) IN
    IF sign = "unconfigured" THEN Result("not_configured", d, NoFile)
    ELSE IF current = NoFile THEN
        IF d.seed_sig = 0 THEN
            LET s == sign_file(d, NoFile, seed, sign) IN
            IF s.st # "ok" THEN Result(s.st, d, NoFile)
            ELSE CreateAndClose(s.d, day, seed, SeedPath, fault)
        ELSE
            LET ls == latest_signed(d)
                prev == IF ls # NoFile THEN ChangesPath(ls) ELSE SeedPath
            IN  CreateAndClose(d, day, seed, prev, fault)
    ELSE
        LET s == sign_file(d, current, seed, sign) IN
        IF s.st # "ok" THEN Result(s.st, d, NoFile)
        ELSE LET r == CreateAndClose(s.d, day, seed, ChangesPath(current), fault)
             IN  IF r.st = "ok" /\ ~dbOk THEN Result("integrity_failed", r.d, r.made)
                 ELSE IF r.st = "ok"
                 THEN Result("ok", _update_integrity_record(r.d, current, dbOk), r.made)
                 ELSE r

start_closing(d, day, seed, sign, fault, dbOk) ==
    LET current == get_current_changelog(d) IN
    IF sign = "unconfigured" THEN Result("not_configured", d, NoFile)
    ELSE IF current = NoFile THEN
        IF d.seed_sig = 0 THEN
            LET s == sign_file(d, NoFile, seed, sign) IN
            IF s.st # "ok" THEN Result(s.st, d, NoFile)
            ELSE CreateAndClose(s.d, day, seed, SeedPath, fault)
        ELSE
            LET ls == latest_signed(d)
                prev == IF ls # NoFile THEN ChangesPath(ls) ELSE SeedPath
            IN  CreateAndClose(d, day, seed, prev, fault)
    ELSE
        LET s == sign_file(d, current, seed, sign) IN
        IF s.st # "ok" THEN Result(s.st, d, NoFile)
        ELSE LET r == CreateAndClose(s.d, day, seed, ChangesPath(current), fault)
             IN  IF r.st = "ok"
                 THEN Result("ok", _update_integrity_record(r.d, current, dbOk), r.made)
                 ELSE r

\* Changelog.write_comment
\* write_comment that takes the latest changelog file, signed or not
write_comment_to_latest(d, message, fault) ==
    LET f == get_latest_changelog(d) IN
    IF f = NoFile THEN [st |-> "no_open_changelog", d |-> d]
    ELSE IF fault = "write_oserror" THEN [st |-> "write_failed", d |-> d]
    ELSE [st |-> "ok", d |-> [d EXCEPT !.changes[f] = Append(@, Row("comment", NoPath, Text(message)))]]

write_comment(d, message, fault) ==
    LET f == get_current_changelog(d) IN
    IF f = NoFile THEN [st |-> "no_open_changelog", d |-> d]
    ELSE IF fault = "write_oserror" THEN [st |-> "write_failed", d |-> d]
    ELSE [st |-> "ok", d |-> [d EXCEPT !.changes[f] = Append(@, Row("comment", NoPath, Text(message)))]]

\* what a command shows for a result: "abort" for (False, message) and for a
\* ChangelogError, both echoed as "Error: ..." before click.Abort; "raised" for an
\* exception the handler does not catch; "killed" when the process was stopped
Shown(st) ==
    IF st \in {"ok", "killed"} THEN st
    ELSE IF st = "oserror" THEN "raised"
    ELSE "abort"

\* results that report a failure to the caller
Failures == {"abort", "raised", "not_a_repository"}

Last(op, result) == [op |-> op, result |-> result]

CurrentDisk == Disk(changes, minisig, seed_sig, integrity)

\* the processes that may run a command at the same time
Procs == {1, 2}

\* a process that runs no command
Idle == [pc |-> "idle", anchor |-> NoPath, prev |-> NoPath, new |-> NoFile]

\* the repository before init: nothing on disk, no call made
InitChain ==
    /\ today = 1
    /\ seed_bin = 0
    /\ seed_sig = 0
    /\ changes = <<>>
    /\ minisig = <<>>
    /\ integrity = <<>>
    /\ created = <<>>
    /\ last = Last("none", "none")
    /\ procs = [p \in Procs |-> Idle]
    /\ data_files = <<>>
    /\ db_files = <<>>
    /\ transactions = <<>>
    /\ scanned = <<>>
    /\ archives = <<>>

\* the clock passes midnight UTC.  The date shows only in the names of the
\* changelogs created on it, so days on which none is created are not counted
NextDay ==
    /\ \E n \in DOMAIN changes : n[1] = today
    /\ today' = today + 1
    /\ UNCHANGED <<seed_bin, seed_sig, changes, minisig, integrity, created, last, procs, monitor, archives, tools>>

\* Repository.initialize: on an initialised repository the INSERT of
\* repository.name into the config table violates its primary key, and the
\* call raises before _create_seed
\* fresh: the bytes secrets.token_bytes would return
\* initialize whose config rows are replaced instead of inserted
initialize_replacing(seed, fresh) == [st |-> "ok", seed |-> fresh]

initialize(seed, fresh) ==
    IF seed = 0 THEN [st |-> "ok", seed |-> fresh]
    ELSE [st |-> "raised", seed |-> seed]

InitRepoWith(fresh) ==
    /\ LET r == initialize(seed_bin, fresh) IN
          /\ seed_bin' = r.seed
          /\ last' = Last("init", r.st)
    /\ UNCHANGED <<today, seed_sig, changes, minisig, integrity, created, procs, monitor, archives, tools>>

InitRepo == \E s \in Seeds : InitRepoWith(s)

SignOutcomes == {"ok", "unconfigured", "missing", "error", "false"}
Faults == {"none", "create_oserror", "write_oserror"}

\* handle_start_command / handle_closing_command
StartClosing(sign, fault, dbOk) ==
    /\ Cardinality(DOMAIN changes) < MaxChangelogs
    /\ sign # "ok" => fault = "none"
    /\ fault # "none" => dbOk
    /\ IF seed_bin = 0
       THEN /\ last' = Last("lifecycle", "not_a_repository")
            /\ UNCHANGED <<seed_sig, changes, minisig, integrity, created>>
       ELSE LET r == start_closing(CurrentDisk, today, seed_bin, sign, fault, dbOk) IN
            /\ changes' = r.d.changes
            /\ minisig' = r.d.minisig
            /\ seed_sig' = r.d.seed_sig
            /\ integrity' = r.d.integrity
            /\ created' = IF r.made = NoFile THEN created ELSE Append(created, r.made)
            /\ last' = Last("lifecycle", Shown(r.st))
    /\ UNCHANGED <<today, seed_bin, procs, monitor, archives, tools>>

\* the rows comment and scan have appended so far
Appended ==
    {p \in UNION {{<<n, i>> : i \in 1..Len(changes[n])} : n \in DOMAIN changes} :
        changes[p[1]][p[2]].type # "closing" /\ changes[p[1]][p[2]].blake3.val # 0}

\* comment and scan may append one more row
HasRoom == Cardinality(Appended) < MaxRows

\* handle_comment_command
Comment(message, fault) ==
    /\ HasRoom
    /\ IF seed_bin = 0
       THEN /\ last' = Last("comment", "not_a_repository")
            /\ UNCHANGED changes
       ELSE LET r == write_comment(CurrentDisk, message, fault) IN
            /\ changes' = r.d.changes
            /\ last' = Last("comment", Shown(r.st))
    /\ UNCHANGED <<today, seed_bin, seed_sig, minisig, integrity, created, procs, monitor, archives, tools>>

\* a scan appends the rows of the changes it found to the open changelog and
\* fails when there is none
ScanPath == [dir |-> "data", name |-> NoFile]
ScanDigest == [kind |-> "blake3", rows |-> <<>>, val |-> 2]

\* the row of a scanned file: its category, size, times and both digests
ScanRow(type) ==
    [Row(type, ScanPath, ScanDigest) EXCEPT
        !.category = "data", !.size = "1", !.ctime = "c", !.mtime = "m", !.sha256 = "s"]

scan_category(d, type, fault) ==
    LET f == get_current_changelog(d) IN
    IF f = NoFile THEN [st |-> "no_open_changelog", d |-> d]
    ELSE IF fault = "write_oserror" THEN [st |-> "write_failed", d |-> d]
    ELSE [st |-> "ok",
          d |-> [d EXCEPT !.changes[f] = Append(@, ScanRow(type))]]

ScanTypes == {"new"}

Scan(type, fault) ==
    /\ HasRoom
    /\ IF seed_bin = 0
       THEN /\ last' = Last("scan", "not_a_repository")
            /\ UNCHANGED changes
       ELSE LET r == scan_category(CurrentDisk, type, fault) IN
            /\ changes' = r.d.changes
            /\ last' = Last("scan", Shown(r.st))
    /\ UNCHANGED <<today, seed_bin, seed_sig, minisig, integrity, created, procs, monitor, archives, tools>>

\* ---------------------------------------------------------- file monitor
\* FileMonitor.scan over the data directories, with the files table of
\* historify.db as the record of what earlier scans found
DataDirs == <<"data", "docs">>

DataPaths ==
    {[dir |-> "data", name |-> 1], [dir |-> "data", name |-> 2], [dir |-> "docs", name |-> 1]}

Contents == {1, 2}

get_blake3_hash(content) == [kind |-> "blake3", rows |-> <<>>, val |-> content]

Transaction(type, path, hash, old_path) ==
    [type |-> type, path |-> path, hash |-> hash, old_path |-> old_path]

\* known_files: hash -> path, from SELECT hash, path FROM files
load_known_files(db) ==
    [h \in {db[i].hash : i \in DOMAIN db} |->
        db[CHOOSE i \in DOMAIN db : db[i].hash = h].path]

\* INSERT OR REPLACE INTO files: hash is the primary key, so the row of that
\* hash is deleted and the new row gets the next rowid
add_file(db, file_hash, file_path) ==
    Append(SelectSeq(db, LAMBDA r : r.hash # file_hash),
           [hash |-> file_hash, path |-> file_path])

\* the loop over the walked files, from the i-th on: known_files stays as it
\* was loaded, the database takes every new and moved file
RECURSIVE scan_walk(_, _, _, _, _)
scan_walk(known_files, data, db, walk, i) ==
    IF i > Len(walk) THEN [transactions |-> <<>>, db |-> db]
    ELSE LET rel_path == walk[i]
             file_hash == get_blake3_hash(data[rel_path])
             found == IF file_hash \notin DOMAIN known_files
                      THEN <<Transaction("new", rel_path, file_hash, NoPath)>>
                      ELSE IF known_files[file_hash] # rel_path
                      THEN <<Transaction("move", rel_path, file_hash, known_files[file_hash])>>
                      ELSE <<>>
             rest == scan_walk(known_files, data,
                               IF found = <<>> THEN db ELSE add_file(db, file_hash, rel_path),
                               walk, i + 1)
         IN  [transactions |-> found \o rest.transactions, db |-> rest.db]

\* the loop over known_files.items() after the walk
RECURSIVE deleted_files(_, _, _)
deleted_files(rows, current_files, i) ==
    IF i > Len(rows) THEN <<>>
    ELSE (IF rows[i].path \notin current_files
          THEN <<Transaction("deleted", rows[i].path, rows[i].hash, NoPath)>>
          ELSE <<>>) \o deleted_files(rows, current_files, i + 1)

\* FileMonitor.scan(data_dirs); walk is the order in which os.walk yields the files
FileMonitor_scan(db, data, walk) ==
    LET w == scan_walk(load_known_files(db), data, db, walk, 1)
    IN  [transactions |-> w.transactions \o deleted_files(db, DOMAIN data, 1),
         db |-> w.db]

DirIndex(dir) == CHOOSE i \in DOMAIN DataDirs : DataDirs[i] = dir

\* os.walk yields the files of a directory in the order of the directory
\* entries, which is no particular order; the directories are walked in the
\* order of data_dirs
WalkOrders(data) ==
    {s \in [1..Cardinality(DOMAIN data) -> DOMAIN data] :
        \A i, j \in DOMAIN s :
            i < j => s[i] # s[j] /\ DirIndex(s[i].dir) <= DirIndex(s[j].dir)}

MonitorScan ==
    /\ \E walk \in WalkOrders(data_files) :
          LET r == FileMonitor_scan(db_files, data_files, walk) IN
          /\ transactions' = r.transactions
          /\ db_files' = r.db
    /\ scanned' = data_files
    /\ UNCHANGED <<today, seed_bin, seed_sig, changes, minisig, integrity, created, last, procs,
                   data_files, archives, tools>>

\* what happens to the data directories between two scans
Without(data, p) == [q \in DOMAIN data \ {p} |-> data[q]]

AddFile(p, c) ==
    /\ p \notin DOMAIN data_files
    /\ data_files' = (p :> c) @@ data_files
    /\ UNCHANGED <<today, seed_bin, seed_sig, changes, minisig, integrity, created, last, procs,
                   db_files, transactions, scanned, archives, tools>>

ModifyFile(p, c) ==
    /\ p \in DOMAIN data_files
    /\ data_files[p] # c
    /\ data_files' = [data_files EXCEPT ![p] = c]
    /\ UNCHANGED <<today, seed_bin, seed_sig, changes, minisig, integrity, created, last, procs,
                   db_files, transactions, scanned, archives, tools>>

RemoveFile(p) ==
    /\ p \in DOMAIN data_files
    /\ data_files' = Without(data_files, p)
    /\ UNCHANGED <<today, seed_bin, seed_sig, changes, minisig, integrity, created, last, procs,
                   db_files, transactions, scanned, archives, tools>>

RenameFile(p, q) ==
    /\ p \in DOMAIN data_files
    /\ q \notin DOMAIN data_files
    /\ data_files' = (q :> data_files[p]) @@ Without(data_files, p)
    /\ UNCHANGED <<today, seed_bin, seed_sig, changes, minisig, integrity, created, last, procs,
                   db_files, transactions, scanned, archives, tools>>

\* ------------------------------------------------------------- verifier
\* verify(path, public_key): the detached signature validates when the file
\* still has the content that was signed
\* a verification that only looks for the .minisig file
verify_signature_present(d, n) == n \in DOMAIN d.minisig

verify_signature(d, n) == n \in DOMAIN d.minisig /\ d.minisig[n] = d.changes[n]

Issue(n, kind) == [file |-> n, kind |-> kind]

\* the file a closing row names by its path
RefExists(d, seed, p) ==
    \/ p.dir = "db" /\ seed # 0
    \/ p.dir = "changes" /\ p.name \in DOMAIN d.changes

\* digest(ref, blake3), recomputed from the file as it is now
RefDigest(d, seed, p) ==
    IF p.dir = "db" THEN SeedDigest(seed) ELSE FileDigest(d.changes[p.name])

\* a missing signature is accepted for the unique open changelog, lexically last
\* accepting the missing signature of whatever get_current_changelog returns
MayBeOpen_current(d, n) == n = get_current_changelog(d)

\* accepting the missing signature of the only unsigned changelog, wherever
\* its name sorts
MayBeOpen_only_unsigned(d, n) ==
    \A m \in DOMAIN d.changes \ {n} : m \in DOMAIN d.minisig

MayBeOpen(d, n) ==
    /\ \A m \in DOMAIN d.changes \ {n} : m \in DOMAIN d.minisig
    /\ n = get_latest_changelog(d)

\* steps 1 to 4 of the full-chain walk for one changelog, as the issues found
verify_changelog(d, seed, n) ==
    LET rows == d.changes[n]
        sig == IF n \in DOMAIN d.minisig
               THEN IF verify_signature(d, n) THEN <<>> ELSE <<Issue(n, "signature_invalid")>>
               ELSE IF MayBeOpen(d, n) THEN <<>> ELSE <<Issue(n, "missing_signature")>>
        chain == IF rows = <<>> THEN <<Issue(n, "empty")>>
                 ELSE IF rows[1].type # "closing" THEN <<Issue(n, "not_closing")>>
                 ELSE IF ~RefExists(d, seed, rows[1].path) THEN <<Issue(n, "ref_missing")>>
                 ELSE IF RefDigest(d, seed, rows[1].path) # rows[1].blake3
                      THEN <<Issue(n, "hash_chain_broken")>>
                 ELSE <<>>
    IN  sig \o chain

RECURSIVE verify_each(_, _, _, _)
verify_each(d, seed, s, i) ==
    IF i > Len(s) THEN <<>>
    ELSE verify_changelog(d, seed, s[i]) \o verify_each(d, seed, s, i + 1)

\* full-chain verification: the seed, then every changelog in lexical order
verify_full_chain(d, seed) ==
    LET seedIssues == IF d.seed_sig # 0 /\ d.seed_sig # seed
                      THEN <<Issue(NoFile, "signature_invalid")>> ELSE <<>>
        issues == seedIssues \o verify_each(d, seed, Sorted(DOMAIN d.changes), 1)
    IN  [ok |-> issues = <<>>, issues |-> issues]

\* recent mode: the signature of the latest signed changelog, then its closing
\* row against the digest of the file the row names; checked lists the
\* changelogs whose signature was verified
\* a recent mode that verifies the signature of every signed changelog
verify_recent_logs_every_signed(d, seed) ==
    LET s == Sorted(DOMAIN d.minisig)
        issues == verify_each(d, seed, s, 1)
    IN  [ok |-> issues = <<>>, issues |-> issues, checked |-> s]

verify_recent_logs(d, seed) ==
    LET n == latest_signed(d) IN
    IF n = NoFile THEN [ok |-> TRUE, issues |-> <<>>, checked |-> <<>>]
    ELSE LET issues == verify_changelog(d, seed, n)
         IN  [ok |-> issues = <<>>, issues |-> issues, checked |-> <<n>>]

\* the integrity index built from scratch: one row per changelog
rebuild_integrity(d) ==
    [n \in DOMAIN d.changes |-> [blake3 |-> FileDigest(d.changes[n]), verified |-> 1]]

\* verify --full-chain; the index is rebuilt after a successful verification
\* a verification that rebuilds the index whatever its result
Verify_rebuilding_always ==
    /\ IF seed_bin = 0
       THEN /\ last' = Last("verify", "not_a_repository")
            /\ UNCHANGED integrity
       ELSE LET v == verify_full_chain(CurrentDisk, seed_bin) IN
            /\ integrity' = rebuild_integrity(CurrentDisk)
            /\ last' = Last("verify", IF v.ok THEN "ok" ELSE "issues")
    /\ UNCHANGED <<today, seed_bin, seed_sig, changes, minisig, created, procs, monitor, archives, tools>>

Verify ==
    /\ IF seed_bin = 0
       THEN /\ last' = Last("verify", "not_a_repository")
            /\ UNCHANGED integrity
       ELSE LET v == verify_full_chain(CurrentDisk, seed_bin) IN
            /\ integrity' = IF v.ok THEN rebuild_integrity(CurrentDisk) ELSE integrity
            /\ last' = Last("verify", IF v.ok THEN "ok" ELSE "issues")
    /\ UNCHANGED <<today, seed_bin, seed_sig, changes, minisig, created, procs, monitor, archives, tools>>

\* verify without --full-chain
VerifyRecent ==
    /\ IF seed_bin = 0
       THEN last' = Last("verify_recent", "not_a_repository")
       ELSE LET v == verify_recent_logs(CurrentDisk, seed_bin) IN
            last' = Last("verify_recent", IF v.ok THEN "ok" ELSE "issues")
    /\ UNCHANGED <<today, seed_bin, seed_sig, changes, minisig, integrity, created, procs, monitor, archives, tools>>

\* ------------------------------------------------------- snapshot packer
\* the output paths a snapshot is asked to write
ArchivePaths == {1}

\* tar+gzip of the repository root: the archive holds the seed, the
\* changelogs, the signature files and the database as they are
tar_repository(d, seed) == [seed_bin |-> seed, disk |-> d]

\* the repository a tar archive is extracted to at a new location
extract_repository(members) == [seed_bin |-> members.seed_bin, disk |-> members.disk]

\* create_snapshot: recent-mode verification first, the archive only after it
\* succeeded
\* a snapshot that packs the repository without verifying it
create_snapshot_unverified(d, seed, out, written) ==
    [st |-> "ok", archives |-> (out :> tar_repository(d, seed)) @@ written]

create_snapshot(d, seed, out, written) ==
    IF ~verify_recent_logs(d, seed).ok
    THEN [st |-> "integrity_check_failed", archives |-> written]
    ELSE [st |-> "ok", archives |-> (out :> tar_repository(d, seed)) @@ written]

\* handle_snapshot_command
Snapshot(out) ==
    /\ IF seed_bin = 0
       THEN /\ last' = Last("snapshot", "not_a_repository")
            /\ UNCHANGED archives
       ELSE LET r == create_snapshot(CurrentDisk, seed_bin, out, archives) IN
            /\ archives' = r.archives
            /\ last' = Last("snapshot", Shown(r.st))
    /\ UNCHANGED <<today, seed_bin, seed_sig, changes, minisig, integrity, created, procs, monitor, tools>>

\* an archive is extracted to a new location and verify --full-chain is run
\* on the extracted repository
VerifyExtracted(out) ==
    /\ out \in DOMAIN archives
    /\ LET r == extract_repository(archives[out]) IN
          last' = Last("verify_extracted",
                       IF verify_full_chain(r.disk, r.seed_bin).ok THEN "ok" ELSE "issues")
    /\ UNCHANGED <<today, seed_bin, seed_sig, changes, minisig, integrity, created, procs,
                   monitor, archives, tools>>

\* --------------------------------------------------------- media packer
\* The archives handed to the packer are numbered in the order of the list;
\* media.archives[i] is the size in bytes of archive i, and every archive
\* exists.  A group is a sequence of archive numbers.
MaxArchives == 3              \* archives in one call
ArchiveSizes == {1, 2, 3}     \* sizes of an archive
MediaCapacities == {2, 4}     \* capacities of the medium

ArchiveLists == UNION {[1..n -> ArchiveSizes] : n \in 0..MaxArchives}

\* sorted(archives, key=size, reverse=True): descending, and stable, so
\* archives of equal size keep the order of the list
InsertBySize(sorted, a, sizes) ==
    LET k == Cardinality({j \in 1..Len(sorted) : sizes[sorted[j]] >= sizes[a]}) IN
    SubSeq(sorted, 1, k) \o <<a>> \o SubSeq(sorted, k + 1, Len(sorted))

RECURSIVE sorted_archives(_, _)
sorted_archives(sizes, n) ==
    IF n = 0 THEN <<>> ELSE InsertBySize(sorted_archives(sizes, n - 1), n, sizes)

\* the loop of split_archives_for_media: only the group being filled is
\* tried; when the archive does not fit and the group is not empty the group
\* is closed and a new one is started with the archive
RECURSIVE split_loop(_, _, _, _, _, _, _)
split_loop(sizes, order, i, archive_groups_, current_group, current_size, media_capacity) ==
    IF i > Len(order)
    THEN IF current_group # <<>> THEN Append(archive_groups_, current_group)
                                 ELSE archive_groups_
    ELSE LET archive_size == sizes[order[i]] IN
         IF current_size + archive_size > media_capacity /\ current_group # <<>>
         THEN split_loop(sizes, order, i + 1, Append(archive_groups_, current_group),
                         <<order[i]>>, archive_size, media_capacity)
         ELSE split_loop(sizes, order, i + 1, archive_groups_,
                         Append(current_group, order[i]), current_size + archive_size,
                         media_capacity)

split_archives_for_media(archives_, media_capacity) ==
    split_loop(archives_, sorted_archives(archives_, Len(archives_)), 1,
               <<>>, <<>>, 0, media_capacity)

\* a call of split_archives_for_media on the archives and the capacity given
SplitArchives ==
    /\ archive_groups' = split_archives_for_media(media.archives, media.media_capacity)
    /\ UNCHANGED <<today, seed_bin, seed_sig, changes, minisig, integrity, created, last, procs,
                   monitor, archives, media, key_files, key_id,
                   config_file, config_db, config, setting, loaded>>

\* ----------------------------------------------------------- key cache
\* A public key file is its name without the extension (stem), the word that
\* follows "public key" in its first line (comment, empty when the line has
\* none), the number of its lines, whether its second line is valid base64
\* and the bytes that line decodes to.  Identifiers and names are sequences
\* of characters.
HexDigits == <<"0", "1", "2", "3", "4", "5", "6", "7",
               "8", "9", "A", "B", "C", "D", "E", "F">>

\* bytes.hex().upper()
RECURSIVE hex_upper(_)
hex_upper(bytes) ==
    IF bytes = <<>> THEN <<>>
    ELSE <<HexDigits[(Head(bytes) \div 16) + 1], HexDigits[(Head(bytes) % 16) + 1]>>
         \o hex_upper(Tail(bytes))

\* the first ten bytes of a minisign public key, nine bytes, and twelve
\* bytes of another key
RawKey == <<69, 100, 3, 37, 51, 192, 3, 246, 14, 154>>
RawShort == SubSeq(RawKey, 1, 9)
RawOther == <<69, 100, 113, 139, 13, 151, 249, 90, 64, 71, 0, 255>>

KeyFiles ==
    {[stem |-> s, comment |-> c, lines |-> l.lines, decodes |-> l.decodes, raw |-> l.raw] :
        s \in {<<"a">>, <<"b">>},
        c \in {<<>>, <<"F", "E">>},
        l \in {[lines |-> 1, decodes |-> FALSE, raw |-> <<>>],
               [lines |-> 2, decodes |-> FALSE, raw |-> <<>>]}
              \cup {[lines |-> 2, decodes |-> TRUE, raw |-> r] :
                       r \in {RawShort, RawKey, RawOther}}}

\* the bytes of a key file, which is what db/keys holds of it
KeyContent(f) == [comment |-> f.comment, lines |-> f.lines,
                  decodes |-> f.decodes, raw |-> f.raw]

NoKeyFile == [stem |-> <<>>, comment |-> <<>>, lines |-> 0, decodes |-> FALSE, raw |-> <<>>]

\* the key id as backup_public_key extracts it: raw_data[2:10] in hex when
\* the second line decodes to ten bytes or more, else the word of the
\* comment line, else the stem of the file name
\* the comment line asked before the wire format
extract_key_id_comment_first(f) ==
    LET from_data == IF f.decodes /\ Len(f.raw) >= 10
                     THEN hex_upper(SubSeq(f.raw, 3, 10)) ELSE <<>>
        from_comment == IF f.comment # <<>> THEN f.comment ELSE from_data
    IN  IF from_comment # <<>> THEN from_comment ELSE f.stem

extract_key_id(f) ==
    LET from_data == IF f.decodes /\ Len(f.raw) >= 10
                     THEN hex_upper(SubSeq(f.raw, 3, 10)) ELSE <<>>
        from_comment == IF from_data # <<>> THEN from_data ELSE f.comment
    IN  IF from_comment # <<>> THEN from_comment ELSE f.stem

\* backup_public_key: a file of fewer than two lines is refused; a target
\* with identical content is left alone, any other is (over)written
\* a key whose identifier is taken is kept beside the file that has it
backup_public_key_keeping_both(keys, f) ==
    IF f.lines < 2
    THEN [st |-> "key_error", key_id |-> <<>>, keys |-> keys]
    ELSE LET id == extract_key_id(f)
             free == IF id \in DOMAIN keys THEN id \o f.stem ELSE id
         IN  [st |-> "ok", key_id |-> free, keys |-> (free :> KeyContent(f)) @@ keys]

backup_public_key(keys, f) ==
    IF f.lines < 2
    THEN [st |-> "key_error", key_id |-> <<>>, keys |-> keys]
    ELSE LET id == extract_key_id(f) IN
         IF id \in DOMAIN keys /\ keys[id] = KeyContent(f)
         THEN [st |-> "ok", key_id |-> id, keys |-> keys]
         ELSE [st |-> "ok", key_id |-> id,
               keys |-> (id :> KeyContent(f)) @@ keys]

\* a call of backup_public_key on one of the key files; again tells that the
\* call before it was given the same file
BackupKey(f) ==
    LET r == backup_public_key(key_files, f) IN
    /\ key_files' = r.keys
    /\ key_id' = [source |-> f, st |-> r.st, key_id |-> r.key_id,
                  again |-> key_id.source = f]
    /\ UNCHANGED <<today, seed_bin, seed_sig, changes, minisig, integrity, created, last, procs,
                   monitor, archives, media, archive_groups,
                   config_file, config_db, config, setting, loaded>>

\* -------------------------------------------------------- configuration
\* The text form is the INI file db/config, the second form the config
\* table of db/cache.db; both are modelled as a function from the key
\* section.option to the value, a sequence of characters.  A file that does
\* not exist and a file without content both read as the empty function.
ConfigKeys == {"repository.name", "test.value"}          \* keys given to set
ConfigValues == {<<"v">>, <<"%", "%">>, <<"%">>}    \* values given to set
Defaults == {<<>>, <<"d">>}                              \* defaults given to get

\* what Repository.initialize writes: the INI file gets four options, the
\* config table two rows
InitialConfigFile ==
    [k \in {"repository.name", "repository.created", "hash.algorithms", "changes.directory"} |->
        CASE k = "repository.name" -> <<"r">>
          [] k = "repository.created" -> <<"t">>
          [] k = "hash.algorithms" -> <<"h">>
          [] OTHER -> <<"c">>]

InitialConfigDb ==
    [k \in {"repository.name", "hash.algorithms"} |-> InitialConfigFile[k]]

\* BasicInterpolation.before_set, which configparser runs on every value
\* assigned: a percent sign must be doubled
RECURSIVE before_set(_)
before_set(value) ==
    IF value = <<>> THEN TRUE
    ELSE IF Head(value) = "%"
         THEN Len(value) >= 2 /\ value[2] = "%" /\ before_set(SubSeq(value, 3, Len(value)))
         ELSE before_set(Tail(value))

\* BasicInterpolation.before_get, which configparser runs on every value read
\* through config[section][option]: a doubled percent sign becomes one
RECURSIVE before_get(_)
before_get(value) ==
    IF value = <<>> THEN <<>>
    ELSE IF Head(value) = "%" /\ Len(value) >= 2 /\ value[2] = "%"
         THEN <<"%">> \o before_get(SubSeq(value, 3, Len(value)))
         ELSE <<Head(value)>> \o before_get(Tail(value))

\* RepositoryConfig.get: the parser in memory first, then the config table,
\* then the default
get(parser, db, key, default) ==
    IF key \in DOMAIN parser THEN before_get(parser[key])
    ELSE IF key \in DOMAIN db THEN db[key]
    ELSE default

SetIdle(result) == [pc |-> "idle", key |-> "", value |-> <<>>, before |-> <<>>, result |-> result]

NoLoad == [at |-> "none", content |-> <<>>]

\* the part of Repository.initialize that writes the configuration
\* (_initialize_database and _create_config)
CreateConfig ==
    /\ config_file = <<>> /\ config_db = <<>>
    /\ setting.pc = "idle"
    /\ config_file' = InitialConfigFile
    /\ config_db' = InitialConfigDb
    /\ UNCHANGED <<today, seed_bin, seed_sig, changes, minisig, integrity, created, last, procs,
                   monitor, archives, media, archive_groups, key_files, key_id,
                   config, setting, loaded>>

\* RepositoryConfig.__init__ of the instance that calls set and get: it reads
\* db/config into its parser once
OpenConfig ==
    /\ config_file # <<>>
    /\ setting.pc = "idle"
    /\ config' = config_file
    /\ UNCHANGED <<today, seed_bin, seed_sig, changes, minisig, integrity, created, last, procs,
                   monitor, archives, media, archive_groups, key_files, key_id,
                   config_file, config_db, setting, loaded>>

\* RepositoryConfig.set, lines 119-122: the value is assigned in the parser
\* in memory; configparser refuses a value with a single percent sign
SetBegin(key, value) ==
    /\ config # <<>>
    /\ setting.pc = "idle"
    /\ IF before_set(value)
       THEN /\ config' = (key :> value) @@ config
            /\ setting' = [pc |-> "open", key |-> key, value |-> value,
                           before |-> config_file, result |-> "running"]
       ELSE /\ setting' = SetIdle("value_error")
            /\ UNCHANGED config
    /\ UNCHANGED <<today, seed_bin, seed_sig, changes, minisig, integrity, created, last, procs,
                   monitor, archives, media, archive_groups, key_files, key_id,
                   config_file, config_db, loaded>>

\* line 125, open(self.config_file, "w"): the file is truncated, or the open
\* fails and set raises ConfigError
SetOpen(opened) ==
    /\ setting.pc = "open"
    /\ IF opened
       THEN /\ config_file' = <<>>
            /\ setting' = [setting EXCEPT !.pc = "write"]
       ELSE /\ setting' = SetIdle("config_error")
            /\ UNCHANGED config_file
    /\ UNCHANGED <<today, seed_bin, seed_sig, changes, minisig, integrity, created, last, procs,
                   monitor, archives, media, archive_groups, key_files, key_id,
                   config_db, config, loaded>>

\* line 126, self.config.write(f) and the close of the file
SetWrite ==
    /\ setting.pc = "write"
    /\ config_file' = config
    /\ setting' = [setting EXCEPT !.pc = "db"]
    /\ UNCHANGED <<today, seed_bin, seed_sig, changes, minisig, integrity, created, last, procs,
                   monitor, archives, media, archive_groups, key_files, key_id,
                   config_db, config, loaded>>

\* lines 130-147, INSERT OR REPLACE INTO config and commit; on sqlite3.Error
\* set raises ConfigError and the file written before stays
SetDb(dbOk) ==
    /\ setting.pc = "db"
    /\ IF dbOk
       THEN /\ config_db' = (setting.key :> setting.value) @@ config_db
            /\ setting' = [setting EXCEPT !.pc = "idle", !.result = "ok"]
       ELSE /\ setting' = [setting EXCEPT !.pc = "idle", !.result = "config_error"]
            /\ UNCHANGED config_db
    /\ UNCHANGED <<today, seed_bin, seed_sig, changes, minisig, integrity, created, last, procs,
                   monitor, archives, media, archive_groups, key_files, key_id,
                   config_file, config, loaded>>

\* RepositoryConfig.__init__ of a second instance, at any moment: it reads
\* what db/config holds then
LoadConfig ==
    /\ loaded' = [at |-> setting.pc, content |-> config_file]
    /\ UNCHANGED <<today, seed_bin, seed_sig, changes, minisig, integrity, created, last, procs,
                   monitor, archives, media, archive_groups, key_files, key_id,
                   config_file, config_db, config, setting>>

\* a sealed changelog is altered behind the program's back: a forged row is
\* appended or its last row is removed; one changelog at most is altered
Altered == {n \in DOMAIN minisig : changes[n] # minisig[n]}

Alterations(rows) ==
    {Append(rows, Row("comment", NoPath, Text(0)))}
      \cup (IF rows = <<>> THEN {} ELSE {SubSeq(rows, 1, Len(rows) - 1)})

Tamper(n) ==
    /\ Altered = {}
    /\ n \in DOMAIN minisig
    /\ \E rows \in Alterations(changes[n]) : changes' = [changes EXCEPT ![n] = rows]
    /\ last' = Last("tamper", "none")
    /\ UNCHANGED <<today, seed_bin, seed_sig, minisig, integrity, created, procs, monitor, archives, tools>>

\* the media packer before its first call
InitMedia ==
    /\ media = [archives |-> <<>>, media_capacity |-> 0]
    /\ archive_groups = <<>>

\* db/keys before the first backup
InitKeys ==
    /\ key_files = <<>>
    /\ key_id = [source |-> NoKeyFile, st |-> "none", key_id |-> <<>>, again |-> FALSE]

\* the configuration before init wrote it
InitConfig ==
    /\ config_file = <<>>
    /\ config_db = <<>>
    /\ config = <<>>
    /\ setting = SetIdle("none")
    /\ loaded = NoLoad

Init == InitChain /\ InitMedia /\ InitKeys /\ InitConfig

Next ==
    \/ NextDay
    \/ InitRepo
    \/ \E sign \in SignOutcomes, fault \in Faults, dbOk \in BOOLEAN :
          StartClosing(sign, fault, dbOk)
    \/ \E m \in Messages, fault \in {"none", "write_oserror"} : Comment(m, fault)
    \/ \E t \in ScanTypes, fault \in {"none", "write_oserror"} : Scan(t, fault)

Spec == Init /\ [][Next]_vars

\* lifecycle calls that succeed or are interrupted after signing, nothing else fails
NextInterrupt ==
    \/ NextDay
    \/ InitRepo
    \/ \E fault \in {"none", "killed_after_sign"}, dbOk \in BOOLEAN :
          StartClosing("ok", fault, dbOk)
    \/ \E m \in Messages : Comment(m, "none")
    \/ \E t \in ScanTypes : Scan(t, "none")

SpecInterrupt == Init /\ [][NextInterrupt]_vars

\* the operations without injected failures, verification, and one alteration
\* of a sealed changelog
NextTamper ==
    \/ Altered = {} /\ NextInterrupt
    \/ Verify
    \/ \E n \in Names : Tamper(n)

SpecTamper == Init /\ [][NextTamper]_vars

\* lifecycle calls that succeed, one alteration of a sealed changelog,
\* recent-mode verification and snapshot
NextRecent ==
    \/ NextDay
    \/ InitRepo
    \/ Altered = {} /\ StartClosing("ok", "none", TRUE)
    \/ \E n \in Names : Tamper(n)
    \/ VerifyRecent
    \/ \E out \in ArchivePaths : Snapshot(out)
    \/ \E out \in ArchivePaths : VerifyExtracted(out)

SpecRecent == Init /\ [][NextRecent]_vars

\* the operations without failures on a repository whose seed is one of two
\* byte strings; every further init draws fresh bytes
SeedChoices == {1, 2}

NextSeed ==
    \/ NextDay
    \/ \E s \in SeedChoices : InitRepoWith(s)
    \/ \E dbOk \in BOOLEAN : StartClosing("ok", "none", dbOk)
    \/ \E m \in Messages : Comment(m, "none")
    \/ \E t \in ScanTypes : Scan(t, "none")

SpecSeed == Init /\ [][NextSeed]_vars

\* scans of the data directories and the changes made to them in between
NextMonitor ==
    \/ MonitorScan
    \/ \E p \in DataPaths, c \in Contents : AddFile(p, c)
    \/ \E p \in DataPaths, c \in Contents : ModifyFile(p, c)
    \/ \E p \in DataPaths : RemoveFile(p)
    \/ \E p, q \in DataPaths : RenameFile(p, q)

SpecMonitor == Init /\ [][NextMonitor]_vars

\* the media packer on every list of archives and every capacity of the bounds
InitPack ==
    /\ InitChain /\ InitKeys /\ InitConfig
    /\ \E a \in ArchiveLists, c \in MediaCapacities :
          media = [archives |-> a, media_capacity |-> c]
    /\ archive_groups = <<>>

NextPack == SplitArchives

SpecPack == InitPack /\ [][NextPack]_vars

\* public keys are backed up into db/keys in any order, any number of times
NextKeys == \E f \in KeyFiles : BackupKey(f)

SpecKeys == Init /\ [][NextKeys]_vars

\* init, one instance that sets keys, with and without failures, and a
\* second instance that loads the configuration at any moment
NextConfig ==
    \/ CreateConfig
    \/ OpenConfig
    \/ \E key \in ConfigKeys, value \in ConfigValues : SetBegin(key, value)
    \/ \E opened \in BOOLEAN : SetOpen(opened)
    \/ SetWrite
    \/ \E dbOk \in BOOLEAN : SetDb(dbOk)
    \/ LoadConfig

SpecConfig == Init /\ [][NextConfig]_vars

\* ------------------------------------------------- concurrent processes
\* Each process runs one command at a time, one step per access to the
\* repository; no step takes a lock, so steps of two processes interleave.
Running(pcs) == {p \in Procs : procs[p].pc \in pcs}

LifecyclePcs == {"sign", "create", "open", "close"}

\* start_closing up to the choice of its branch: the key check, the current
\* changelog, and in the recovery branch the last signed changelog
LifecycleBegin(p) ==
    /\ procs[p] = Idle
    /\ seed_bin # 0
    /\ Cardinality(DOMAIN changes) + Cardinality(Running(LifecyclePcs)) < MaxChangelogs
    /\ LET d == CurrentDisk
           current == get_current_changelog(d)
           ls == latest_signed(d)
       IN  procs' = [procs EXCEPT ![p] =
              IF current # NoFile
              THEN [pc |-> "sign", anchor |-> ChangesPath(current),
                    prev |-> ChangesPath(current), new |-> NoFile]
              ELSE IF seed_sig = 0
              THEN [pc |-> "sign", anchor |-> SeedPath, prev |-> SeedPath, new |-> NoFile]
              ELSE [pc |-> "create", anchor |-> NoPath,
                    prev |-> IF ls # NoFile THEN ChangesPath(ls) ELSE SeedPath,
                    new |-> NoFile]]
    /\ UNCHANGED <<today, seed_bin, seed_sig, changes, minisig, integrity, created, last, monitor, archives, tools>>

\* sign_file(anchor): the signature covers what the file holds now
LifecycleSign(p) ==
    /\ procs[p].pc = "sign"
    /\ LET s == sign_file(CurrentDisk, procs[p].anchor.name, seed_bin, "ok") IN
          /\ minisig' = s.d.minisig
          /\ seed_sig' = s.d.seed_sig
    /\ procs' = [procs EXCEPT ![p].pc = "create"]
    /\ UNCHANGED <<today, seed_bin, changes, integrity, created, last, monitor, archives, tools>>

\* create_new_changelog up to the name: it raises when a changelog is open,
\* else takes the first name of today that no file has
LifecyclePickName(p) ==
    /\ procs[p].pc = "create"
    /\ IF get_current_changelog(CurrentDisk) # NoFile
       THEN /\ procs' = [procs EXCEPT ![p] = Idle]
            /\ last' = Last("lifecycle", "abort")
       ELSE /\ procs' = [procs EXCEPT ![p].pc = "open",
                                      ![p].new = NewName(CurrentDisk, today, 0)]
            /\ last' = last
    /\ UNCHANGED <<today, seed_bin, seed_sig, changes, minisig, integrity, created, monitor, archives, tools>>

\* open(new_changelog, "w") and the header: the file is created, or emptied
\* when it exists by now
LifecycleOpenNew(p) ==
    /\ procs[p].pc = "open"
    /\ LET n == procs[p].new IN
          /\ changes' = (n :> <<>>) @@ changes
          /\ created' = IF n \in DOMAIN changes THEN created ELSE Append(created, n)
    /\ procs' = [procs EXCEPT ![p].pc = "close"]
    /\ UNCHANGED <<today, seed_bin, seed_sig, minisig, integrity, last, monitor, archives, tools>>

\* write_closing_transaction(prev), then the integrity record of the changelog
\* that was signed
LifecycleWriteClosing(p, dbOk) ==
    /\ procs[p].pc = "close"
    /\ LET w == write_closing_transaction(CurrentDisk, seed_bin, procs[p].prev, "none")
           a == procs[p].anchor
       IN  IF w.st # "ok"
           THEN /\ last' = Last("lifecycle", "abort")
                /\ UNCHANGED <<changes, integrity>>
           ELSE /\ changes' = w.d.changes
                /\ integrity' = IF a.dir = "changes"
                                 THEN _update_integrity_record(w.d, a.name, dbOk).integrity
                                 ELSE integrity
                /\ last' = Last("lifecycle", "ok")
    /\ procs[p].anchor.dir # "changes" => dbOk
    /\ procs' = [procs EXCEPT ![p] = Idle]
    /\ UNCHANGED <<today, seed_bin, seed_sig, minisig, created, monitor, archives, tools>>

\* write_comment up to the choice of the file: it raises when none is open
CommentBegin(p) ==
    /\ procs[p] = Idle
    /\ seed_bin # 0
    /\ Cardinality(Appended) + Cardinality(Running({"append"})) < MaxRows
    /\ LET f == get_current_changelog(CurrentDisk) IN
          IF f = NoFile
          THEN /\ last' = Last("comment", "abort")
               /\ procs' = procs
          ELSE /\ last' = last
               /\ procs' = [procs EXCEPT ![p] =
                      [pc |-> "append", anchor |-> ChangesPath(f), prev |-> NoPath,
                       new |-> NoFile]]
    /\ UNCHANGED <<today, seed_bin, seed_sig, changes, minisig, integrity, created, monitor, archives, tools>>

\* open(changelog_file, "a") and the row
CommentAppend(p, message) ==
    /\ procs[p].pc = "append"
    /\ changes' = [changes EXCEPT ![procs[p].anchor.name] =
                      Append(@, Row("comment", NoPath, Text(message)))]
    /\ procs' = [procs EXCEPT ![p] = Idle]
    /\ last' = Last("comment", "ok")
    /\ UNCHANGED <<today, seed_bin, seed_sig, minisig, integrity, created, monitor, archives, tools>>

LifecycleStep(p) ==
    \/ LifecycleBegin(p)
    \/ LifecycleSign(p)
    \/ LifecyclePickName(p)
    \/ LifecycleOpenNew(p)
    \/ \E dbOk \in BOOLEAN : LifecycleWriteClosing(p, dbOk)

CommentStep(p) ==
    \/ CommentBegin(p)
    \/ \E m \in Messages : CommentAppend(p, m)

\* one process runs lifecycle calls while the other writes comments
NextAppendRace ==
    \/ NextDay
    \/ InitRepo
    \/ LifecycleStep(1)
    \/ CommentStep(2)

SpecAppendRace == Init /\ [][NextAppendRace]_vars

\* two processes run lifecycle calls
NextLifecycleRace ==
    \/ NextDay
    \/ InitRepo
    \/ \E p \in Procs : LifecycleStep(p)

SpecLifecycleRace == Init /\ [][NextLifecycleRace]_vars

\* ------------------------------------------------------------ properties
Unsigned == {n \in DOMAIN changes : n \notin DOMAIN minisig}

HasClosing(n) == Len(changes[n]) >= 1 /\ changes[n][1].type = "closing"

\* the artifact a changelog's closing row references
Ref(n) == IF HasClosing(n) THEN changes[n][1].path ELSE NoPath

Position(n) == CHOOSE i \in 1..Len(created) : created[i] = n

\* the chain artifact made just before changelog n, and its digest when it was closed
PrevArtifact(n) ==
    IF Position(n) = 1 THEN SeedPath ELSE ChangesPath(created[Position(n) - 1])

ClosedDigest(p) ==
    IF p.dir = "db" THEN SeedDigest(seed_bin)
    ELSE IF p.name \in DOMAIN minisig THEN FileDigest(minisig[p.name])
    ELSE Empty

\* C1: at most one changelog lacks a signature, and an unsigned changelog has
\* the lexically greatest file name of all changelogs
C1_OneOpenLexicallyLast ==
    /\ Cardinality(Unsigned) <= 1
    /\ \A n \in Unsigned : \A m \in DOMAIN changes \ {n} : LexLess(m, n)

\* C2: the first row of every changelog is a closing row that names the
\* previous chain artifact and carries its digest at closing time
C2_FirstRowCloses ==
    \A n \in DOMAIN changes :
        /\ HasClosing(n)
        /\ changes[n][1].path = PrevArtifact(n)
        /\ changes[n][1].blake3 = ClosedDigest(PrevArtifact(n))

\* C3: a changelog created earlier has the lexically smaller file name
C3_CreationOrderIsNameOrder ==
    \A i, j \in 1..Len(created) : i < j => LexLess(created[i], created[j])

RECURSIVE ReachesSeed(_, _)
ReachesSeed(n, fuel) ==
    /\ fuel > 0
    /\ \/ Ref(n) = SeedPath
       \/ /\ Ref(n).dir = "changes"
          /\ Ref(n).name \in DOMAIN changes
          /\ ReachesSeed(Ref(n).name, fuel - 1)

\* C4: the closing-row references form one chain from the seed through every
\* signed changelog: nothing is referenced twice, every signed changelog but
\* the last of the chain is referenced exactly once
C4_OneLinearChain ==
    /\ \A m, n \in DOMAIN changes : (m # n /\ Ref(m) # NoPath) => Ref(m) # Ref(n)
    /\ \A n \in DOMAIN minisig : ReachesSeed(n, Cardinality(DOMAIN changes))
    /\ \A n \in DOMAIN minisig :
          n # created[Len(created)] =>
             Cardinality({m \in DOMAIN changes : Ref(m) = ChangesPath(n)}) = 1

\* the call has an anchor to sign, or stops at the key check before looking
SigningAttempted(sign) ==
    /\ seed_bin # 0
    /\ \/ sign = "unconfigured"
       \/ seed_sig = 0
       \/ get_current_changelog(CurrentDisk) # NoFile

\* C5: a lifecycle call whose signing fails reports the failure and leaves the
\* seed, every changelog, every signature and the integrity table as they were
C5_SignFailureChangesNothing ==
    [][\A sign \in SignOutcomes \ {"ok"} :
          (SigningAttempted(sign) /\ StartClosing(sign, "none", TRUE)) =>
             /\ last'.result \in Failures
             /\ UNCHANGED <<seed_bin, seed_sig, changes, minisig, integrity, created>>]_vars

C5_Witness ==
    /\ last = Last("lifecycle", "abort")
    /\ Unsigned # {}
    /\ \A n \in DOMAIN changes : HasClosing(n)

Seeded == seed_bin # 0 /\ seed_sig = 0 /\ DOMAIN changes = {}
Ready == seed_sig # 0 /\ Unsigned = {}
Open == seed_sig # 0 /\ C1_OneOpenLexicallyLast /\ Unsigned # {}

\* C6: after a lifecycle call that failed the repository is SEEDED, READY or
\* OPEN and every changelog has a closing first row
C6_FailedCallLeavesChainConsistent ==
    (last.op = "lifecycle" /\ last.result \in Failures \ {"not_a_repository"}) =>
        /\ Seeded \/ Ready \/ Open
        /\ \A n \in DOMAIN changes : HasClosing(n)

\* C7: no operation changes a changelog that has a signature, nor its signature
C7_SignedNeverChanges ==
    [][\A n \in DOMAIN minisig :
          /\ n \in DOMAIN changes' /\ changes'[n] = changes[n]
          /\ n \in DOMAIN minisig' /\ minisig'[n] = minisig[n]]_vars

C7_Witness ==
    /\ DOMAIN minisig # {}
    /\ last.op \in {"comment", "scan"}
    /\ last.result = "ok"

\* C10 as stated: the seed signature exists if and only if a changelog exists
C10_SeedSignedIffChangelog == (seed_sig # 0) <=> (DOMAIN changes # {})

\* C10: a changelog exists only when the seed is signed, and both hold after
\* every lifecycle call that succeeded
C10_ChangelogImpliesSeedSigned ==
    /\ DOMAIN changes # {} => seed_sig # 0
    /\ (last.op = "lifecycle" /\ last.result = "ok") => (seed_sig # 0 /\ DOMAIN changes # {})

C10_Witness == seed_sig # 0 /\ DOMAIN changes = {} /\ last = Last("lifecycle", "raised")

Verification == verify_full_chain(CurrentDisk, seed_bin)

\* the verification result v holds an issue of one of the kinds for changelog n
Reported(v, n, kinds) ==
    \E i \in 1..Len(v.issues) : v.issues[i].file = n /\ v.issues[i].kind \in kinds

IssueKinds == {"signature_invalid", "missing_signature", "empty", "not_closing",
               "ref_missing", "hash_chain_broken"}

\* a closing row whose digest differs from the digest of the file it names
HashMismatch(n) ==
    /\ HasClosing(n)
    /\ RefExists(CurrentDisk, seed_bin, changes[n][1].path)
    /\ RefDigest(CurrentDisk, seed_bin, changes[n][1].path) # changes[n][1].blake3

AlterationIsReported(v) ==
    /\ \A n \in Altered : ~v.ok /\ Reported(v, n, IssueKinds)
    /\ \A n \in DOMAIN changes : HashMismatch(n) => Reported(v, n, {"hash_chain_broken"})
    /\ (last.op = "verify" /\ Altered # {}) => last.result = "issues"

\* C8: when a signed changelog has been altered, full-chain verification fails
\* and reports an issue for that changelog; a closing row whose digest does not
\* match the file it names is reported as a broken hash chain
C8_AlterationIsReported == AlterationIsReported(Verification)

C8_Witness ==
    /\ last = Last("verify", "issues")
    /\ Altered # {}
    /\ \E n \in DOMAIN changes : HashMismatch(n)

\* I1 to I5 of the repository on disk
I1 ==
    /\ seed_sig # 0 => seed_sig = seed_bin
    /\ \A n \in DOMAIN minisig : minisig[n] = changes[n]

I2 ==
    \A n \in DOMAIN changes :
        /\ HasClosing(n)
        /\ RefExists(CurrentDisk, seed_bin, changes[n][1].path)
        /\ RefDigest(CurrentDisk, seed_bin, changes[n][1].path) = changes[n][1].blake3

I3 ==
    /\ \A m, n \in DOMAIN changes : (m # n /\ Ref(m) # NoPath) => Ref(m) # Ref(n)
    /\ \A n \in DOMAIN minisig : ReachesSeed(n, Cardinality(DOMAIN changes))

I4 ==
    /\ Cardinality(Unsigned) <= 1
    /\ \A n \in Unsigned : \A m \in DOMAIN changes \ {n} : LexLess(m, n)

I5 == (seed_sig # 0) <=> (DOMAIN changes # {})

LifecycleCall ==
    /\ last'.op = "lifecycle"
    /\ today' = today
    /\ \E sign \in SignOutcomes, fault \in Faults \cup {"killed_after_sign"}, dbOk \in BOOLEAN :
          StartClosing(sign, fault, dbOk)

Succeeded == last'.result = "ok" /\ LifecycleCall

\* the call made exactly one changelog, n, with the one row given, and left
\* every other changelog as it was
CreatedOnly(n, row) ==
    /\ n \notin DOMAIN changes
    /\ DOMAIN changes' = DOMAIN changes \cup {n}
    /\ changes'[n] = <<row>>
    /\ \A m \in DOMAIN changes : changes'[m] = changes[m]

\* C11: a successful lifecycle call made while changelog c is open signs
\* exactly c, creates exactly one changelog whose only row is a closing row
\* with path changes/<c> and the digest of c as it was signed, and leaves the
\* new changelog as the only open one
C11_ClosesOpenAndStartsNext ==
    [][\A c \in Unsigned :
          Succeeded =>
             /\ minisig' = (c :> changes[c]) @@ minisig
             /\ seed_sig' = seed_sig
             /\ \E n \in Names :
                   /\ CreatedOnly(n, Row("closing", ChangesPath(c), FileDigest(minisig'[c])))
                   /\ Unsigned' = {n}]_vars

C11_Witness ==
    /\ last = Last("lifecycle", "ok")
    /\ \E c \in DOMAIN minisig, n \in Unsigned :
          changes[n] = <<Row("closing", ChangesPath(c), FileDigest(minisig[c]))>>

\* C12: a successful lifecycle call on a SEEDED repository signs the seed and
\* leaves exactly one changelog, whose only row is a closing row with path
\* db/seed.bin and the digest of the seed
C12_FirstCallSignsSeed ==
    [][(Seeded /\ Succeeded) =>
          /\ seed_sig' = seed_bin
          /\ seed_bin' = seed_bin
          /\ minisig' = minisig
          /\ \E n \in Names :
                CreatedOnly(n, Row("closing", SeedPath, SeedDigest(seed_bin)))]_vars

C12_Witness ==
    /\ last = Last("lifecycle", "ok")
    /\ seed_sig = seed_bin
    /\ DOMAIN minisig = {}
    /\ \E n \in Names :
          DOMAIN changes = {n} /\ changes[n] = <<Row("closing", SeedPath, SeedDigest(seed_bin))>>

\* the last artifact of the chain: the changelog sealed most recently, which is
\* the signed one created last, or the seed when no changelog is signed
RECURSIVE LastSealed(_)
LastSealed(i) ==
    IF i = 0 THEN SeedPath
    ELSE IF created[i] \in DOMAIN minisig THEN ChangesPath(created[i])
    ELSE LastSealed(i - 1)

LastArtifact == LastSealed(Len(created))

\* C13: a lifecycle call made when the seed is signed and no changelog is open
\* changes no signature and creates one open changelog whose closing row
\* references the last artifact of the chain
C13_ReadyCallReferencesLastArtifact ==
    [][(Ready /\ Succeeded) =>
          /\ minisig' = minisig
          /\ seed_sig' = seed_sig
          /\ \E n \in Names :
                /\ CreatedOnly(n, Row("closing", LastArtifact, ClosedDigest(LastArtifact)))
                /\ Unsigned' = {n}]_vars

\* the artifact a closing row references has a signature
Sealed(p) ==
    \/ p.dir = "db" /\ seed_sig # 0
    \/ p.dir = "changes" /\ p.name \in DOMAIN minisig

\* the open changelog holds nothing but its closing row
FreshlyOpen == Unsigned # {} /\ \A n \in Unsigned : Len(changes[n]) = 1 /\ HasClosing(n)

\* C14, for the first of two consecutive lifecycle calls that start from
\* READY: the call leaves one signed anchor and one new open changelog that
\* contains nothing but its closing row, which references that anchor, and I4
\* and I5 hold after the call
C14_TwoCallsFromReady ==
    [][(Ready /\ Succeeded) =>
          /\ Cardinality(DOMAIN changes') = Cardinality(DOMAIN changes) + 1
          /\ FreshlyOpen'
          /\ \A n \in Unsigned' : Sealed(Ref(n))'
          /\ I4'
          /\ I5']_vars

\* C15: a lifecycle call interrupted after its anchor was signed and before
\* the new changelog exists leaves a READY repository, and the next lifecycle
\* call creates an open changelog whose closing row references the artifact
\* the interrupted call signed, after which I2, I3 and I4 hold
C15_InterruptedCallIsRecovered ==
    [][/\ (LifecycleCall /\ last'.result = "killed") => Ready'
       /\ (last = Last("lifecycle", "killed") /\ Succeeded) =>
             /\ \E n \in Names :
                   /\ CreatedOnly(n, Row("closing", LastArtifact, ClosedDigest(LastArtifact)))
                   /\ Unsigned' = {n}
             /\ I2'
             /\ I3'
             /\ I4']_vars

\* the row a comment is recorded as
CommentRow(m) ==
    [type |-> "comment", path |-> NoPath, category |-> "", size |-> "", ctime |-> "",
     mtime |-> "", sha256 |-> "", blake3 |-> Text(m)]

\* C18: with an open changelog write_comment appends to it exactly one row, of
\* type comment, with the message in the blake3 field and path, category, size,
\* ctime, mtime and sha256 empty; with none it reports an error and appends
\* nothing
C18_CommentNeedsOpenChangelog ==
    [][\A m \in Messages :
          (seed_bin # 0 /\ Comment(m, "none")) =>
             IF Unsigned # {}
             THEN /\ last'.result = "ok"
                  /\ \E n \in Unsigned :
                        changes' = [changes EXCEPT ![n] = Append(@, CommentRow(m))]
             ELSE /\ last'.result \in Failures
                  /\ changes' = changes]_vars

C18_Witness ==
    /\ last = Last("comment", "ok")
    /\ \E n \in Unsigned, m \in Messages :
          changes[n][Len(changes[n])] = CommentRow(m)

\* C19: once db/seed.bin exists no init, lifecycle, scan or comment call
\* changes it; initialising again reports a failure and leaves the seed, its
\* signature, the changelogs and their signatures as they were
C19_SeedIsReadOnly ==
    [][/\ seed_bin # 0 => seed_bin' = seed_bin
       /\ \A s \in SeedChoices :
             (seed_bin # 0 /\ InitRepoWith(s)) =>
                /\ last'.result \in Failures
                /\ UNCHANGED <<seed_sig, changes, minisig, integrity>>]_vars

C19_Witness ==
    /\ last = Last("init", "raised")
    /\ seed_sig = seed_bin
    /\ DOMAIN minisig # {}

\* the artifacts a lifecycle call in this environment hands to sign_file
SignedBy(sign, fault, dbOk) ==
    start_closing(CurrentDisk, today, seed_bin, sign, fault, dbOk).d.signed

HasSignature(p) ==
    \/ p.dir = "db" /\ seed_sig # 0
    \/ p.dir = "changes" /\ p.name \in DOMAIN minisig

HasSignatureAfter(p) ==
    \/ p.dir = "db" /\ seed_sig' # 0
    \/ p.dir = "changes" /\ p.name \in DOMAIN minisig'

\* no call signs an artifact that has a signature, and no signature is ever
\* removed or replaced
SignedAtMostOnce ==
    /\ seed_sig # 0 => seed_sig' = seed_sig
    /\ \A n \in DOMAIN minisig : n \in DOMAIN minisig' /\ minisig'[n] = minisig[n]
    /\ (last'.op = "lifecycle" /\ today' = today /\ seed_bin # 0) =>
          \A sign \in SignOutcomes, fault \in Faults \cup {"killed_after_sign"},
             dbOk \in BOOLEAN :
             StartClosing(sign, fault, dbOk) =>
                LET files == SignedBy(sign, fault, dbOk) IN
                /\ Len(files) <= 1
                /\ \A i \in 1..Len(files) : ~HasSignature(files[i])
                /\ \A i \in 1..Len(files) : HasSignatureAfter(files[i])
    /\ (seed_sig = 0 /\ seed_sig' # 0) => (LifecycleCall /\ seed_sig' = seed_bin)
    /\ (last'.op = "lifecycle" /\ last'.result = "ok") => seed_sig' # 0

\* C20 as stated: every chain artifact is signed at most once, the seed by the
\* first lifecycle call that succeeds, and a changelog that has a signature is
\* never handed to the signer again
C20_SeedSignedBySuccessfulCall ==
    [][/\ SignedAtMostOnce
       /\ (seed_sig = 0 /\ seed_sig' # 0) => last'.result = "ok"]_vars

\* C20: every chain artifact is signed at most once, the seed by the first
\* lifecycle call whose signing step succeeds, whether or not that call then
\* completes, and a changelog that has a signature is never handed to the
\* signer again
C20_SignedAtMostOnce == [][SignedAtMostOnce]_vars

C20_Witness ==
    /\ seed_sig = seed_bin /\ seed_bin # 0
    /\ Cardinality(DOMAIN minisig) >= 2
    /\ last = Last("lifecycle", "killed")

IsPrefix(a, b) == Len(a) <= Len(b) /\ SubSeq(b, 1, Len(a)) = a

\* a closing row that references a signed changelog carries the digest of what
\* was signed
DigestsOfSignedContent ==
    \A n \in DOMAIN changes :
        (HasClosing(n) /\ Ref(n).dir = "changes" /\ Ref(n).name \in DOMAIN minisig) =>
            changes[n][1].blake3 = FileDigest(minisig[Ref(n).name])

\* no step removes a row from a changelog
NoRowLost == \A n \in DOMAIN changes : n \in DOMAIN changes' /\ IsPrefix(changes[n], changes'[n])

\* C16: under every interleaving of a lifecycle call with comment appends no
\* row is written to a changelog after its signature was created, the digest
\* in the next closing row is the digest of the content that was signed, and
\* no appended row is lost
C16_AppendsAreSerialised ==
    [][/\ \A n \in DOMAIN minisig : n \in DOMAIN changes' /\ changes'[n] = changes[n]
       /\ DigestsOfSignedContent'
       /\ NoRowLost]_vars

\* a step that signs an artifact which has a signature
SignsAgain ==
    \E p \in Procs : LifecycleSign(p) /\ HasSignature(procs[p].anchor)

ClosingRows(n) == {i \in 1..Len(changes[n]) : changes[n][i].type = "closing"}

\* C17: under every interleaving of two lifecycle calls no artifact is signed
\* twice and no changelog file is emptied or overwritten, and once both calls
\* have ended at most one changelog is open and every changelog has exactly
\* one closing row
C17_LifecycleCallsAreSerialised ==
    [][/\ ~SignsAgain
       /\ NoRowLost
       /\ (\A p \in Procs : procs'[p] = Idle) =>
             /\ Cardinality(Unsigned') <= 1
             /\ \A n \in DOMAIN changes' : Cardinality(ClosingRows(n)') = 1]_vars

\* a lifecycle call in which signing and both file writes succeed and the
\* update of the integrity record fails
IndexUpdateFails ==
    /\ last'.op = "lifecycle"
    /\ today' = today
    /\ seed_bin # 0
    /\ StartClosing("ok", "none", FALSE)

\* C21: when the update of the integrity index fails during a lifecycle call,
\* the call still reports success, the changelog that was open is signed with
\* the content it had, a new open changelog with its closing row exists, and
\* the changelogs and signatures are those of the call without the failure:
\* only the index differs
C21_IndexFailureIsNotFatal ==
    [][IndexUpdateFails =>
          LET clean == start_closing(CurrentDisk, today, seed_bin, "ok", "none", TRUE) IN
          /\ last'.result = "ok"
          /\ \A c \in Unsigned : c \in DOMAIN minisig' /\ minisig'[c] = changes[c]
          /\ \E n \in Unsigned' : n \notin DOMAIN changes /\ HasClosing(n)'
          /\ changes' = clean.d.changes
          /\ minisig' = clean.d.minisig
          /\ seed_sig' = clean.d.seed_sig]_vars

\* a successful call has signed a changelog that the index does not hold
C21_Witness ==
    /\ last = Last("lifecycle", "ok")
    /\ \E c \in DOMAIN minisig, n \in Unsigned :
          /\ c \notin DOMAIN integrity
          /\ HasClosing(n)
          /\ Ref(n) = ChangesPath(c)

\* changelog n is the only one without a signature and its name is the
\* lexically greatest
MayLackSignature(n) ==
    /\ Unsigned = {n}
    /\ \A m \in DOMAIN changes \ {n} : LexLess(m, n)

\* C22: full-chain verification accepts a changelog without a signature only
\* when it is the unique unsigned changelog and the lexically last one; for
\* every other unsigned changelog it fails and reports the missing signature
C22_OnlyLastOpenMayLackSignature ==
    /\ seed_bin # 0 =>
          \A n \in Unsigned :
              IF MayLackSignature(n)
              THEN ~Reported(Verification, n, {"missing_signature"})
              ELSE ~Verification.ok /\ Reported(Verification, n, {"missing_signature"})
    /\ (last.op = "verify" /\ last.result = "ok") =>
          \A n \in Unsigned : MayLackSignature(n)

\* a verification that failed on a repository whose only defect is an
\* unsigned changelog that is not the last one
C22_Witness ==
    /\ last = Last("verify", "issues")
    /\ I1 /\ I2
    /\ \E n \in Unsigned : ~MayLackSignature(n)

\* the signed changelog whose name is lexically greatest
IsLatestSigned(n) ==
    /\ n \in DOMAIN minisig
    /\ \A m \in DOMAIN minisig \ {n} : LexLess(m, n)

RecentVerification == verify_recent_logs(CurrentDisk, seed_bin)

\* C23: recent-mode verification checks exactly one changelog, the latest
\* signed one: it verifies that changelog's signature and nothing else's, and
\* it fails exactly when that signature does not validate or the blake3 of
\* the changelog's closing row differs from the digest of the file the row names
C23_RecentChecksLatestSigned ==
    (seed_bin # 0 /\ DOMAIN minisig # {}) =>
        \E n \in DOMAIN minisig :
            /\ IsLatestSigned(n)
            /\ RecentVerification.checked = <<n>>
            /\ RecentVerification.ok <=> (minisig[n] = changes[n] /\ ~HashMismatch(n))
            /\ last.op = "verify_recent" =>
                  last.result = (IF minisig[n] = changes[n] /\ ~HashMismatch(n)
                                 THEN "ok" ELSE "issues")

\* recent-mode verification succeeded although an earlier changelog was altered
C23_Witness ==
    /\ last = Last("verify_recent", "ok")
    /\ \E n \in DOMAIN minisig : IsLatestSigned(n) /\ Altered # {} /\ n \notin Altered

\* the index holds one row per changelog, with the digest the file has now
IndexFromScratch ==
    /\ DOMAIN integrity = DOMAIN changes
    /\ \A n \in DOMAIN changes :
          integrity[n].blake3 = FileDigest(changes[n]) /\ integrity[n].verified = 1

\* C24: a full-chain verification rebuilds the integrity index only when it
\* succeeded; after the rebuild the index is what construction from scratch
\* yields, one row per changelog with its current digest, whatever it held
\* before; a failed verification leaves the index as it was
C24_RebuildOnlyAfterSuccess ==
    [][(last'.op = "verify" /\ seed_bin # 0 /\ Verify) =>
          IF Verification.ok THEN IndexFromScratch' ELSE integrity' = integrity]_vars

\* a successful verification of a chain with a sealed and an open changelog
C24_Witness ==
    /\ last = Last("verify", "ok")
    /\ DOMAIN minisig # {} /\ Unsigned # {}
    /\ IndexFromScratch

\* the rows of the last scan that carry path p
RowsFor(p) == SelectSeq(transactions, LAMBDA t : t.path = p)

\* paths added, removed and modified since the scan before the last one, as
\* seen when the last scan has just run: S is what that earlier scan walked
AddedSince(S) == DOMAIN data_files \ DOMAIN S
RemovedSince(S) == DOMAIN S \ DOMAIN data_files
ModifiedSince(S) == {p \in DOMAIN S \cap DOMAIN data_files : S[p] # data_files[p]}

\* the rows a scan must return when the scan before it walked S: nothing for
\* a file that is as it was, one changed row for a modified file, one new,
\* duplicate or move row for a new path (move exactly when a removed path had
\* that content, with that path as the old one), and for a removed path one deleted row unless
\* its content moved to a new path
RowsAsNeeded(S) ==
    /\ \A i \in DOMAIN transactions : transactions[i].path \in DOMAIN S \cup DOMAIN data_files
    /\ \A p \in (DOMAIN S \cap DOMAIN data_files) \ ModifiedSince(S) : RowsFor(p) = <<>>
    /\ \A p \in ModifiedSince(S) :
          Len(RowsFor(p)) = 1 /\ RowsFor(p)[1].type = "changed"
    /\ \A p \in AddedSince(S) :
          /\ Len(RowsFor(p)) = 1
          /\ RowsFor(p)[1].type \in {"new", "duplicate", "move"}
          /\ RowsFor(p)[1].type = "move" <=>
                \E q \in RemovedSince(S) : S[q] = data_files[p]
          /\ RowsFor(p)[1].type = "move" =>
                /\ RowsFor(p)[1].old_path \in RemovedSince(S)
                /\ S[RowsFor(p)[1].old_path] = data_files[p]
    /\ \A p \in RemovedSince(S) :
          IF \E q \in AddedSince(S) : data_files[q] = S[p]
          THEN Len(RowsFor(p)) <= 1 /\ \A i \in DOMAIN RowsFor(p) : RowsFor(p)[i].type = "deleted"
          ELSE Len(RowsFor(p)) = 1 /\ RowsFor(p)[1].type = "deleted"

\* C25: when files were added, modified, removed or renamed after a scan, the
\* next scan returns exactly the rows the changes need: one new row for an
\* added path, one changed row for a path whose content differs, one move row
\* for a renamed file, one deleted row for a removed path, and no other row
C25_ScanReportsExactlyTheChanges ==
    [][(MonitorScan /\ scanned # data_files) =>
          \A S \in {scanned} : RowsAsNeeded(S)']_vars

\* C26: a scan of data directories that are as the scan before left them
\* returns no row, whatever was scanned earlier: after deletions, after moves,
\* and with several files of the same content
C26_RescanReturnsNothing ==
    [][(MonitorScan /\ scanned = data_files) => transactions' = <<>>]_vars

\* q holds the content p had at the scan before, p is gone and every other
\* file is as it was
RenamedSince(S, p, q) ==
    /\ p \in DOMAIN S
    /\ q \notin DOMAIN S
    /\ data_files = (q :> S[p]) @@ Without(S, p)

\* C27: after a file was renamed and its content left alone, the next scan
\* returns for the two paths exactly one row, a move row with the new path
\* that carries the old path: no new row and no deleted row for either path
C27_RenameIsOneMoveRow ==
    [][MonitorScan =>
          \A S \in {scanned} : \A p, q \in DataPaths :
              RenamedSince(S, p, q) =>
                  SelectSeq(transactions', LAMBDA t : t.path \in {p, q})
                     = <<Transaction("move", q, get_blake3_hash(S[p]), p)>>]_vars

\* relative paths in ascending order
PathLess(p, q) ==
    \/ DirIndex(p.dir) < DirIndex(q.dir)
    \/ p.dir = q.dir /\ p.name < q.name

\* C29: the rows of one scan over several categories come category by
\* category in the order of the categories, and within a category in
\* ascending order of the relative path
C29_RowsByCategoryThenPath ==
    [][MonitorScan =>
          \A i, j \in DOMAIN transactions' :
              i < j => /\ DirIndex(transactions'[i].path.dir) <= DirIndex(transactions'[j].path.dir)
                       /\ ~PathLess(transactions'[j].path, transactions'[i].path)]_vars

\* a scan call, whatever it finds and whether or not its write would fail
ScanCall ==
    /\ last'.op = "scan"
    /\ \E t \in ScanTypes, fault \in {"none", "write_oserror"} : Scan(t, fault)

SnapshotCall ==
    /\ last'.op = "snapshot"
    /\ seed_bin # 0
    /\ \E out \in ArchivePaths : Snapshot(out)

\* C30: snapshot runs recent-mode verification first; when that fails the
\* call fails and creates no archive file, and an archive file appears only
\* in a call whose verification succeeded
C30_SnapshotNeedsVerifiedRepository ==
    [][/\ (SnapshotCall /\ ~RecentVerification.ok) =>
             last'.result \in Failures /\ archives' = archives
       /\ (SnapshotCall /\ RecentVerification.ok) =>
             last'.result = "ok" /\ DOMAIN archives' # {}
       /\ archives' # archives =>
             RecentVerification.ok /\ last' = Last("snapshot", "ok")]_vars

\* a snapshot was refused because the latest signed changelog was altered, and
\* no archive exists
C30_Witness ==
    /\ last = Last("snapshot", "abort")
    /\ ~RecentVerification.ok
    /\ DOMAIN archives = {}

\* total size of a group of archives
RECURSIVE GroupSize(_, _)
GroupSize(sizes, g) ==
    IF g = <<>> THEN 0 ELSE sizes[Head(g)] + GroupSize(sizes, Tail(g))

\* first-fit: the archive goes into the earliest opened group that has room
\* for it, and a new group is opened only when no group has room
FirstFit(sizes, groups, a, capacity) ==
    LET fits == {j \in 1..Len(groups) : GroupSize(sizes, groups[j]) + sizes[a] <= capacity} IN
    IF fits = {}
    THEN Append(groups, <<a>>)
    ELSE LET j == CHOOSE x \in fits : \A y \in fits : x <= y IN
         [groups EXCEPT ![j] = Append(groups[j], a)]

RECURSIVE FirstFitFrom(_, _, _, _, _)
FirstFitFrom(sizes, order, i, groups, capacity) ==
    IF i > Len(order) THEN groups
    ELSE FirstFitFrom(sizes, order, i + 1, FirstFit(sizes, groups, order[i], capacity), capacity)

FirstFitDecreasing(sizes, capacity) ==
    FirstFitFrom(sizes, sorted_archives(sizes, Len(sizes)), 1, <<>>, capacity)

\* C32: for every list of archive sizes and every capacity, the groups
\* split_archives_for_media returns are the first-fit-decreasing packing:
\* archives in descending order of size, each placed into the earliest
\* opened group that has room for it, a new group only when none has room.
C32_SplitIsFirstFitDecreasing ==
    archive_groups # <<>> =>
        archive_groups = FirstFitDecreasing(media.archives, media.media_capacity)

\* the archives of the list, as a set of archive numbers
Packed(g) == {g[j] : j \in 1..Len(g)}

\* C38: for every list of existing archives and every capacity, the groups
\* returned partition the archives (each archive in exactly one group, once,
\* and no group empty) and the total size of each group is at most the
\* capacity.
C38_GroupsPartitionAndFit ==
    archive_groups # <<>> =>
        /\ \A a \in 1..Len(media.archives) :
              Cardinality({j \in 1..Len(archive_groups) : a \in Packed(archive_groups[j])}) = 1
        /\ \A j \in 1..Len(archive_groups) :
              /\ archive_groups[j] # <<>>
              /\ Packed(archive_groups[j]) \subseteq 1..Len(media.archives)
              /\ Cardinality(Packed(archive_groups[j])) = Len(archive_groups[j])
              /\ GroupSize(media.archives, archive_groups[j]) <= media.media_capacity

HasWireId(f) == f.decodes /\ Len(f.raw) >= 10

C35_GetReturnsWhatSetStored ==
    [][/\ (setting.pc = "db" /\ setting'.result = "ok") =>
              \A d \in Defaults : get(config', config_db', setting.key, d) = setting.value
       /\ \A k \in ConfigKeys \cup DOMAIN InitialConfigFile, d \in Defaults :
              /\ k \in DOMAIN config' =>
                    \A e \in Defaults : get(config', config_db', k, d) =
                                         get(config', <<>>, k, e)
              /\ (k \notin DOMAIN config' /\ k \in DOMAIN config_db') =>
                    get(config', config_db', k, d) = config_db'[k]
              /\ (k \notin DOMAIN config' /\ k \notin DOMAIN config_db') =>
                    get(config', config_db', k, d) = d]_vars

\* C36: the two persisted forms are kept in sync: after init and after any
\* sequence of set calls, successful or failed, every key has the same value
\* in db/config and in the config table.
C36_FormsInSync ==
    (config_file # <<>> /\ setting.pc = "idle") =>
        /\ DOMAIN config_file = DOMAIN config_db
        /\ \A k \in DOMAIN config_file : config_file[k] = config_db[k]

\* C37: an instance that loads the configuration while a set is in progress
\* reads from db/config either the complete content it had before the set or
\* the complete content the set writes, never an empty or partial file.
C37_ReaderSeesOldOrNew ==
    [][loaded' # loaded =>
          IF setting.pc = "idle"
          THEN loaded'.content = config_file
          ELSE loaded'.content \in {setting.before, config}]_vars

\* C39: after any sequence of lifecycle and comment operations the integrity
\* table has at most one row per changelog and rows for changelogs only;
\* every row marked verified names a changelog that has a signature file and
\* whose current digest is the blake3 the row stores; the open, unsigned
\* changelog has no row marked verified.
C39_VerifiedRowsNameSignedChangelogs ==
    /\ DOMAIN integrity \subseteq DOMAIN changes
    /\ \A n \in DOMAIN integrity :
          integrity[n].verified = 1 =>
              /\ n \in DOMAIN minisig
              /\ integrity[n].blake3 = FileDigest(changes[n])
    /\ \A n \in Unsigned :
          n \in DOMAIN integrity => integrity[n].verified # 1

\* a changelog that holds a comment was signed and indexed, and its
\* successor, which is open, has its closing row and no row in the table
C39_Witness ==
    /\ \E n \in DOMAIN integrity : integrity[n].verified = 1 /\ Len(changes[n]) > 1
    /\ \E n \in Unsigned : n \notin DOMAIN integrity /\ Len(changes[n]) > 0

\* the changelogs of an archive that no longer have the content that was signed
AlteredIn(members) ==
    {n \in DOMAIN members.disk.minisig : members.disk.changes[n] # members.disk.minisig[n]}

\* C31: whenever snapshot succeeds, extracting the archive to a new location
\* and running full-chain verification on the extracted repository
\* succeeds.  Stated for archives none of whose changelogs was altered after
\* it was signed.
C31_SnapshotRoundTrip ==
    \A out \in DOMAIN archives :
        (last.op = "verify_extracted" /\ AlteredIn(archives[out]) = {}) =>
            last.result = "ok"
====
